---- MODULE Spec2Model ----
(***************************************************************************)
(* The main-process bridge of discord-botclient (class Main): connection   *)
(* lifecycle with bounded retry, the credential store, per-channel command *)
(* routes, server broadcasts, channel activation and live messages.        *)
(*                                                                         *)
(* The eris connection handle, the nedb credential store, the Electron ipc *)
(* bus and the browser windows are the environment: their events are the   *)
(* actions, and each action runs the whole handler Main binds to the event.*)
(***************************************************************************)
EXTENDS Integers, Sequences, FiniteSets, TLC

(* ------------------------------ bounds -------------------------------- *)
\* connection handles (eris instances) that may be alive at once
MaxBots == 2
\* pending operations of the credential store's executor queue
MaxQueue == 2
\* pending 5 s retry timers
MaxTimers == 2
\* 'token' listeners registered on ipcMain
MaxTokenListeners == 2
\* command listeners registered on ipcMain for one channel identifier
MaxListeners == 2
\* history fetches in flight
MaxFetches == 2
\* live messages that arrive in one run
MaxLive == 3
\* channel activations in one run
MaxActivations == 2

(* --------------------------- program constants ------------------------ *)
\* onDisconnect: "retry 3 times"
RetryCeiling == 3
\* activateChannel: bot.getMessages(channel.id, 50)
HistoryLimit == 50
\* the renderer's addMessage keeps the last 100 messages of a channel
UiListLimit == 100

(* ------------------------------ values -------------------------------- *)
\* what a user can type into the token window; "" is a falsy token
Tokens == {"", "abc123"}
BotIds == 1..MaxBots
NoBot  == 0
\* a slot holding no live connection handle
FreeBot == [p |-> "none", link |-> "off", tok |-> ""]

\* a field or an argument that is not there (undefined)
Absent == "<absent>"

\* the one server of the model and the channels it can hold: kind (eris
\* channel.type: 0 is text) and whether the bot's own user may read it
Channels == {"general", "random", "voice-1", "staff", "news"}
Kind(c) == IF c = "voice-1" THEN 2 ELSE 0
Readable(c) == c # "staff"
\* channels of the server when the bot first sees it
InitialChannels == {"general", "random", "voice-1", "staff"}
\* the channels that are created or deleted while the program runs
DynamicChannels == {"general", "news"}
\* the channels messages are written in
TextChannels == {c \in Channels : Kind(c) = 0 /\ Readable(c)}

\* command payloads a renderer can send on a channel's route
NoCmd == [present |-> FALSE, type |-> Absent, message |-> Absent,
          action |-> Absent, channel |-> Absent]
Cmd(t, m, a, c) == [present |-> TRUE, type |-> t, message |-> m, action |-> a,
                    channel |-> c]
Cmds ==
  {NoCmd, Cmd(Absent, "hi", Absent, Absent), Cmd("", "hi", Absent, Absent)}
  \cup {Cmd(t, "hi", Absent, Absent) : t \in {"message", "edit"}}
  \cup {Cmd("typing", Absent, a, c) :
          a \in {"start", "stop", Absent}, c \in {"general", "random", Absent}}

VARIABLES
  appReady,       \* electron's app 'ready' has fired (login() was called once)
  store,          \* config.db: the sequence of records, each record its token
  dbq,            \* nedb's executor queue: operations issued and not yet run
  bots,           \* the eris instances created by login(), all with handlers bound
  cur,            \* this.bot
  retries,        \* this.retries
  timers,         \* retry timers scheduled by onDisconnect and not yet fired
  mainWindow,     \* this.mainWindow is a live BrowserWindow
  liveWindows,    \* main BrowserWindows created and not yet closed
  tokenWindow,    \* this.tokenWindow: "none" (undefined), "open" or "closed"
  orphans,        \* open token windows this.tokenWindow no longer references
  tokenListeners, \* listeners registered on ipcMain for 'token'
  inGuild,        \* the server is in bot.guilds
  chans,          \* the channels of the server (the library's live cache)
  gone,           \* channels that were deleted
  listeners,      \* per channel identifier, the listeners registered on ipcMain
  uiServer,       \* the renderer's $scope.servers entry for the server, if shown
  activeChannel,  \* this.activeChannel: the identifier of the channel, or Absent
  hist,           \* per channel, how many messages the remote history holds
  fetches,        \* getMessages calls in flight: the channel and whether the
                  \* renderer that asked (event.sender) is still there
  arrived,        \* live messages that have arrived so far
  liveAuthors,    \* per user of the library's cache, the `roles` field of
                  \* the live user object (users carry none of their own)
  activations,    \* channel activations so far
  uiMessages,     \* the renderer's $scope.messages: per channel, the
                  \* identifiers of the messages it lists, in list order
  uncaught,       \* some handler has thrown out of its event callback
  ev,             \* the event whose handler ran last
  sent,           \* what that handler sent to the renderer
  calls           \* the calls that handler made on the connection handle

lifeVars == <<appReady, store, dbq, bots, cur, retries, timers, tokenWindow,
              orphans, tokenListeners>>
routeVars == <<inGuild, chans, gone, listeners, uiServer>>
msgVars == <<activeChannel, hist, fetches, arrived, liveAuthors, activations,
             uiMessages>>
windowVars == <<mainWindow, liveWindows>>
vars == <<lifeVars, windowVars, routeVars, msgVars, uncaught, ev, sent, calls>>

\* the renderer holds no server
NoServer == [shown |-> FALSE, channels |-> {}]
Snapshot(cs) == [shown |-> TRUE, channels |-> cs]

Ev(k) == [kind |-> k, ch |-> Absent, cmd |-> NoCmd]
EvCh(k, c) == [kind |-> k, ch |-> c, cmd |-> NoCmd]
EvCmd(c, cmd) == [kind |-> "command", ch |-> c, cmd |-> cmd]
\* a lifecycle step sends nothing to the renderer and calls nothing
Quiet(k) == ev' = Ev(k) /\ sent' = <<>> /\ calls' = <<>>

(* ------------------------------ helpers ------------------------------- *)
\* a handle that can still emit events: created, connect not rejected, not dropped
Alive(b) == bots[b].p \in {"pending", "resolved"} /\ bots[b].link # "down"
\* a slot login() may use for a new eris instance: never used, or its handle is
\* dead (connect settled, and rejected or disconnected) and emits nothing more
Reusable(b) == bots[b].p # "pending" /\ ~Alive(b)
FreeSlots == {b \in BotIds : Reusable(b)}
NewSlot == CHOOSE b \in FreeSlots : \A c \in FreeSlots : b <= c

(* ------------------------------ handlers ------------------------------ *)
\* Main.createTokenWindow: a new token window replaces this.tokenWindow and one
\* more 'token' listener is registered
createTokenWindow ==
  /\ tokenListeners < MaxTokenListeners
  /\ tokenWindow' = "open"
  /\ orphans' = IF tokenWindow = "open" THEN orphans + 1 ELSE orphans
  /\ tokenListeners' = tokenListeners + 1

\* Main.createWindow
createWindow == mainWindow' = TRUE /\ liveWindows' = liveWindows + 1

\* Main.login: issues config.findOne; its callback is loginCallback
login(q) == Append(q, [op |-> "find", tok |-> ""])

\* the callback of login()'s findOne
loginCallback ==
  IF store = <<>> \/ store[1] = ""
  THEN /\ createTokenWindow
       /\ UNCHANGED <<routeVars, msgVars>>
  /\ UNCHANGED <<bots, cur>>
  ELSE /\ FreeSlots # {}
       /\ bots' = [bots EXCEPT ![NewSlot] =
                     [p |-> "pending", link |-> "off", tok |-> store[1]]]
       /\ cur' = NewSlot
       /\ UNCHANGED <<routeVars, msgVars>>
  /\ UNCHANGED <<tokenWindow, orphans, tokenListeners>>

\* Main.saveToken, once per registered 'token' listener: each issues findOne
RECURSIVE saveToken(_, _, _)
saveToken(q, tok, n) ==
  IF n = 0 THEN q ELSE saveToken(Append(q, [op |-> "sfind", tok |-> tok]), tok, n - 1)

\* the callback of saveToken's findOne: insert when there is no record, else
\* update the record found
saveFindCallback(q, tok) ==
  IF store = <<>>
  THEN Append(q, [op |-> "insert", tok |-> tok])
  ELSE Append(q, [op |-> "update", tok |-> tok])

\* the store after the write saveToken queued
written(w) ==
  IF w.op = "insert" THEN Append(store, w.tok)
  ELSE IF store = <<>> THEN store ELSE [store EXCEPT ![1] = w.tok]

\* saveToken's callback after the write: login(), then close this.tokenWindow;
\* close() on a window already destroyed throws
saveCallback(q) ==
  /\ dbq' = login(q)
  /\ tokenWindow' = IF tokenWindow = "none" THEN "none" ELSE "closed"
  /\ uncaught' = (uncaught \/ tokenWindow = "closed")

\* onDisconnect with the ceiling test off by one (retries > 3)
onDisconnect_lateCeiling ==
  IF retries > RetryCeiling
  THEN /\ retries' = 0
       /\ createTokenWindow
       /\ UNCHANGED timers
  ELSE /\ retries' = retries + 1
       /\ timers < MaxTimers
       /\ timers' = timers + 1
       /\ UNCHANGED <<tokenWindow, orphans, tokenListeners>>

\* onDisconnect that forces re-authentication and still counts the disconnect
onDisconnect_noReset ==
  IF retries >= RetryCeiling
  THEN /\ retries' = retries + 1
       /\ createTokenWindow
       /\ UNCHANGED timers
  ELSE /\ retries' = retries + 1
       /\ timers < MaxTimers
       /\ timers' = timers + 1
       /\ UNCHANGED <<tokenWindow, orphans, tokenListeners>>

\* Main.onDisconnect
onDisconnect ==
  IF retries >= RetryCeiling
  THEN /\ retries' = 0
       /\ createTokenWindow
       /\ UNCHANGED timers
  ELSE /\ retries' = retries + 1
       /\ timers < MaxTimers
       /\ timers' = timers + 1
       /\ UNCHANGED <<routeVars, msgVars>>
  /\ UNCHANGED <<tokenWindow, orphans, tokenListeners>>

(* --------------------------- command routes --------------------------- *)
\* the channels createServer copies into the snapshot and registers a route for
snapshotChannels == {c \in chans : Kind(c) = 0 /\ Readable(c)}

\* the lookup of sendCommand's typing case finds the channel in the live cache:
\* bot.guilds.get(bot.channelGuildMap[id]).channels.get(id)
Cached(c) == inGuild /\ c \in chans

\* sendCommand without its guard on an absent command or type
sendCommand_noGuard(channel, cmd) ==
  IF cmd.type = "message"
  THEN [calls |-> <<[op |-> "createMessage", ch |-> channel, text |-> cmd.message]>>,
        threw |-> FALSE]
  ELSE IF cmd.type = "typing"
  THEN IF cmd.action = "start"
       THEN IF cmd.channel # Absent /\ Cached(cmd.channel)
            THEN [calls |-> <<[op |-> "sendTyping", ch |-> cmd.channel,
                               text |-> Absent]>>,
                  threw |-> FALSE]
            ELSE [calls |-> <<>>, threw |-> TRUE]
       ELSE [calls |-> <<>>, threw |-> FALSE]
  ELSE [calls |-> <<[op |-> "createMessage", ch |-> channel, text |-> cmd.message]>>,
        threw |-> FALSE]

\* sendCommand whose default case ignores the command
sendCommand_ignoreDefault(channel, cmd) ==
  IF ~cmd.present \/ cmd.type \in {Absent, ""}
  THEN [calls |-> <<>>, threw |-> FALSE]
  ELSE IF cmd.type = "message"
  THEN [calls |-> <<[op |-> "createMessage", ch |-> channel, text |-> cmd.message]>>,
        threw |-> FALSE]
  ELSE IF cmd.type = "typing"
  THEN IF cmd.action = "start"
       THEN IF cmd.channel # Absent /\ Cached(cmd.channel)
            THEN [calls |-> <<[op |-> "sendTyping", ch |-> cmd.channel,
                               text |-> Absent]>>,
                  threw |-> FALSE]
            ELSE [calls |-> <<>>, threw |-> TRUE]
       ELSE [calls |-> <<>>, threw |-> FALSE]
  ELSE [calls |-> <<>>, threw |-> FALSE]

\* Main.sendCommand(channel, event, cmd): the calls made on the connection and
\* whether the handler threw
sendCommand(channel, cmd) ==
  IF ~cmd.present \/ cmd.type \in {Absent, ""}
  THEN [calls |-> <<>>, threw |-> FALSE]
  ELSE IF cmd.type = "message"
  THEN [calls |-> <<[op |-> "createMessage", ch |-> channel, text |-> cmd.message]>>,
        threw |-> FALSE]
  ELSE IF cmd.type = "typing"
  THEN IF cmd.action = "start"
       THEN IF cmd.channel # Absent /\ Cached(cmd.channel)
            THEN [calls |-> <<[op |-> "sendTyping", ch |-> cmd.channel,
                               text |-> Absent]>>,
                  threw |-> FALSE]
            ELSE [calls |-> <<>>, threw |-> TRUE]
       ELSE [calls |-> <<>>, threw |-> FALSE]
  ELSE [calls |-> <<[op |-> "createMessage", ch |-> channel, text |-> cmd.message]>>,
        threw |-> FALSE]

\* ipcMain emits a command to the n listeners of a route in turn; a listener
\* that throws ends the emit
RECURSIVE emitCommand(_, _, _)
emitCommand(channel, cmd, n) ==
  IF n = 0 THEN [calls |-> <<>>, threw |-> FALSE]
  ELSE LET r == sendCommand(channel, cmd)
           rest == emitCommand(channel, cmd, n - 1)
       IN IF r.threw THEN r
          ELSE [calls |-> r.calls \o rest.calls, threw |-> rest.threw]

\* Main.createServer: a route is registered for every snapshot channel, then the
\* snapshot is sent to the main window (which throws when there is none)
createServer ==
  /\ \A c \in snapshotChannels : listeners[c] < MaxListeners
  /\ listeners' = [c \in Channels |->
                     IF c \in snapshotChannels THEN listeners[c] + 1
                     ELSE listeners[c]]
  /\ IF mainWindow
     THEN /\ sent' = <<[to |-> "server-create", data |-> snapshotChannels]>>
          /\ uiServer' = Snapshot(snapshotChannels)
          /\ UNCHANGED uncaught
     ELSE /\ sent' = <<>>
          /\ uncaught' = TRUE
          /\ UNCHANGED uiServer

\* Main.onReady: createServer for every server of this.bot.guilds
onReady ==
  IF inGuild THEN createServer
  ELSE UNCHANGED <<listeners, uiServer, uncaught>> /\ sent' = <<>>

\* Main.deleteServer
deleteServer ==
  IF mainWindow
  THEN /\ sent' = <<[to |-> "server-delete", data |-> {}]>>
       /\ uiServer' = NoServer
       /\ UNCHANGED uncaught
  ELSE /\ sent' = <<>>
       /\ uncaught' = TRUE
       /\ UNCHANGED uiServer

\* Main.createChannel: 'server-update' is sent, then the registration reads
\* _channels, a name that is not defined in this scope, and throws before
\* ipcMain.on is called
createChannel(c) ==
  /\ sent' = IF mainWindow THEN <<[to |-> "server-update", data |-> {}]>> ELSE <<>>
  /\ uncaught' = TRUE
  /\ UNCHANGED <<listeners, uiServer>>

\* Main.deleteChannel
deleteChannel(c) ==
  /\ sent' = IF mainWindow THEN <<[to |-> "server-update", data |-> {}]>> ELSE <<>>
  /\ uncaught' = (uncaught \/ ~mainWindow)
  /\ UNCHANGED <<listeners, uiServer>>

(* ------------------------------ messages ------------------------------ *)
\* the remote history of a channel is its messages 1..hist[c], oldest first;
\* message i of a channel as the library hands it over
Users == {"alice", "bob"}
User(u) == [id |-> u, username |-> u, discriminator |-> "0001", avatar |-> Absent]
\* the roles of the server: identifier, name and colour (a number)
Roles == {"r-black", "r-red"}
Role(r) == [id |-> r, name |-> r, color |-> IF r = "r-black" THEN 0 ELSE 16711680]
\* alice is a member of the server, with roles; bob's messages carry no member
MemberRoles(u) == IF u = "alice" THEN <<"r-black", "r-red">> ELSE <<>>
AuthorOf(i) == IF i % 2 = 1 THEN "alice" ELSE "bob"
\* messages are a minute and a second apart, from 11:58:20 in the morning
TimestampOf(i) == 43100000 + i * 61000
Message(c, i) ==
  [id |-> i, channel |-> [id |-> c, guild |-> "S1"], timestamp |-> TimestampOf(i),
   content |-> "text", author |-> User(AuthorOf(i)),
   member |-> IF AuthorOf(i) = "alice" THEN "member" ELSE Absent,
   client |-> "client"]

\* moment.unix(ms / 1000).format('hh:mm:ss a'): the 12-hour time of day
formatTimestamp(ms) ==
  LET sec == ms \div 1000
      h24 == (sec \div 3600) % 24
  IN [hh |-> IF h24 % 12 = 0 THEN 12 ELSE h24 % 12,
      mm |-> (sec \div 60) % 60,
      ss |-> sec % 60,
      a  |-> IF h24 < 12 THEN "am" ELSE "pm"]

\* parseInt(n.toString(), 16): the decimal digits of n read as hexadecimal
RECURSIVE parseIntHex(_)
parseIntHex(n) == IF n < 10 THEN n ELSE 16 * parseIntHex(n \div 10) + (n % 10)

\* a colour string: '#' followed by a number as the template literal prints it
\* (decimal, no padding), or by six hexadecimal digits
DecString(n) == [form |-> "#decimal", value |-> n]
HexString(n) == [form |-> "#hex6", value |-> n]

\* the role clone formatMessage builds for one role identifier
formatRole(r) ==
  LET roleColourHex == DecString(parseIntHex(Role(r).color))
  IN [id |-> r, name |-> Role(r).name,
      color |-> IF roleColourHex = HexString(0) THEN HexString(16711422)
                ELSE roleColourHex]

\* Main.formatMessage: the snapshot of a message
formatMessage(m) ==
  [id |-> m.id,
   channel |-> m.channel.id,
   timestamp |-> formatTimestamp(m.timestamp),
   content |-> m.content,
   member |-> m.member,
   author |-> [id |-> m.author.id, username |-> m.author.username,
               discriminator |-> m.author.discriminator,
               avatar |-> m.author.avatar,
               roles |-> IF m.member # Absent
                         THEN [k \in 1..Len(MemberRoles(m.author.id)) |->
                                 formatRole(MemberRoles(m.author.id)[k])]
                         ELSE <<>>]]

\* a live user object as the library made it: it has no `roles` field
NoRolesField == [has |-> FALSE, roles |-> <<>>]

\* formatMessage's assignment msg.author.roles = ...: msg is a shallow copy, so
\* msg.author is the live user object and the assignment writes its field
authorAfterFormat(authors, m) ==
  [authors EXCEPT ![m.author.id] =
     [has |-> TRUE, roles |-> formatMessage(m).author.roles]]

\* messages.map(formatMessage): the live user objects after the first k messages
RECURSIVE authorsAfterMap(_, _, _)
authorsAfterMap(authors, messages, k) ==
  IF k = 0 THEN authors
  ELSE authorAfterFormat(authorsAfterMap(authors, messages, k - 1), messages[k])

\* bot.getMessages(id, limit) of the library: the last `limit` messages of the
\* channel, newest first
getMessages(c, limit) ==
  LET n == IF hist[c] < limit THEN hist[c] ELSE limit
  IN [k \in 1..n |-> Message(c, hist[c] - k + 1)]

reverse(q) == [k \in 1..Len(q) |-> q[Len(q) - k + 1]]
RemoveAt(q, i) == [k \in 1..(Len(q) - 1) |-> IF k < i THEN q[k] ELSE q[k + 1]]

\* the then-callback without the reverse: the batch stays newest first
historyBatch_noReverse(c, messages) ==
  [to |-> c, data |-> [k \in 1..Len(messages) |-> formatMessage(messages[k])]]

\* the then-callback sending on the active channel's identifier instead of the
\* identifier of the channel the fetch was made for
historyBatch_toActive(c, messages) ==
  [to |-> activeChannel,
   data |-> reverse([k \in 1..Len(messages) |-> formatMessage(messages[k])])]

\* the then-callback of activateChannel: map formatMessage, reverse, send
historyBatch(c, messages) ==
  [to |-> c, data |-> reverse([k \in 1..Len(messages) |-> formatMessage(messages[k])])]

\* onMessage without the active-channel filter
onMessage_noFilter(msg) ==
  IF ~mainWindow THEN <<>>
  ELSE <<[to |-> formatMessage(msg).channel, data |-> formatMessage(msg)]>>

\* onMessage without the test for the main window (the older variants)
onMessage_noWindowGuard(msg) ==
  IF activeChannel # Absent /\ activeChannel # msg.channel.id THEN <<>>
  ELSE <<[to |-> formatMessage(msg).channel, data |-> formatMessage(msg)]>>

\* Main.onMessage
onMessage(msg) ==
  IF ~mainWindow THEN <<>>
  ELSE IF activeChannel # Absent /\ activeChannel # msg.channel.id THEN <<>>
  ELSE <<[to |-> formatMessage(msg).channel, data |-> formatMessage(msg)]>>

(* ------------------------------ renderer ------------------------------ *)
\* the renderer listens on a channel's identifier: ipcRenderer.on(channel.id,
\* addMessage) for every channel of a 'server-create' it received
Listening(c) == mainWindow /\ uiServer.shown /\ c \in uiServer.channels

\* addMessage for a single message: push, then keep the last 100
addMessage(messages, id) ==
  LET pushed == Append(messages, id)
  IN IF Len(pushed) > UiListLimit
     THEN SubSeq(pushed, Len(pushed) - UiListLimit + 1, Len(pushed))
     ELSE pushed

\* addMessage for an array: the batch is put in front of the messages listed
addMessageBatch(messages, ids) == ids \o messages

\* the renderer's lists after a live message was sent to it
rendererLive(ui, s) ==
  IF ~Listening(s.to) THEN ui
  ELSE [ui EXCEPT ![s.data.channel] = addMessage(@, s.data.id)]

\* the renderer's lists after a history batch was sent to it; the list is
\* the one of a sample's channel, and an empty batch has no sample
rendererBatch(ui, s) ==
  IF ~Listening(s.to) \/ s.data = <<>> THEN ui
  ELSE [ui EXCEPT ![s.data[1].channel] =
          addMessageBatch(@, [k \in 1..Len(s.data) |-> s.data[k].id])]

(* ------------------------------- actions ------------------------------ *)
\* the remote histories a run may start from
NoHistory == [c \in Channels |-> 0]
InitialHistories ==
  {[c \in Channels |-> IF c = "general" THEN n ELSE 0] : n \in {0, 49, 51}}

\* the state after the constructor, for a remote history
Start(h) ==
  /\ hist = h
  /\ appReady = FALSE
  /\ store \in {<<>>, <<"abc123">>}
  /\ dbq = <<>>
  /\ bots = [b \in BotIds |-> FreeBot]
  /\ cur = NoBot
  /\ retries = 0
  /\ timers = 0
  /\ mainWindow = FALSE
  /\ liveWindows = 0
  /\ tokenWindow = "none"
  /\ orphans = 0
  /\ tokenListeners = 0
  /\ uncaught = FALSE
  /\ inGuild = TRUE
  /\ chans = InitialChannels
  /\ gone = {}
  /\ listeners = [c \in Channels |-> 0]
  /\ uiServer = NoServer
  /\ activeChannel = Absent
  /\ fetches = <<>>
  /\ arrived = 0
  /\ liveAuthors = [u \in Users |-> NoRolesField]
  /\ activations = 0
  /\ uiMessages = [c \in Channels |-> <<>>]
  /\ ev = Ev("construct")
  /\ sent = <<>>
  /\ calls = <<>>

Init == Start(NoHistory)

\* app.on('ready', this.login.bind(this))
AppReady ==
  /\ ~appReady
  /\ appReady' = TRUE
  /\ dbq' = login(dbq)
  /\ Quiet("appReady")
  /\ UNCHANGED <<routeVars, msgVars>>
  /\ UNCHANGED <<store, bots, cur, retries, timers, windowVars, tokenWindow,
                 orphans, tokenListeners, uncaught>>

\* nedb runs the head of its queue and calls back
DbFind ==
  /\ dbq # <<>> /\ Head(dbq).op = "find"
  /\ dbq' = Tail(dbq)
  /\ loginCallback
  /\ Quiet("loginCallback")
  /\ UNCHANGED <<routeVars, msgVars>>
  /\ UNCHANGED <<appReady, store, retries, timers, windowVars, uncaught>>

\* a then-callback that creates the main window whether or not one exists
ConnectResolve_always(b) ==
  /\ bots[b].p = "pending"
  /\ bots' = [bots EXCEPT ![b].p = "resolved"]
  /\ createWindow
  /\ Quiet("connected")
  /\ UNCHANGED <<routeVars, msgVars>>
  /\ UNCHANGED <<appReady, store, dbq, cur, retries, timers, tokenWindow,
                 orphans, tokenListeners, uncaught>>

\* bot.connect() resolves: the then-callback of login
ConnectResolve(b) ==
  /\ bots[b].p = "pending"
  /\ bots' = [bots EXCEPT ![b].p = "resolved"]
  /\ IF ~mainWindow THEN createWindow ELSE UNCHANGED windowVars
  /\ Quiet("connected")
  /\ UNCHANGED <<routeVars, msgVars>>
  /\ UNCHANGED <<appReady, store, dbq, cur, retries, timers, tokenWindow,
                 orphans, tokenListeners, uncaught>>

\* a login whose connect() has no catch-callback: the rejection is unhandled
ConnectReject_unhandled(b) ==
  /\ bots[b].p = "pending" /\ bots[b].link = "off"
  /\ bots' = [bots EXCEPT ![b].p = "rejected"]
  /\ uncaught' = TRUE
  /\ Quiet("connectFailed")
  /\ UNCHANGED <<routeVars, msgVars>>
  /\ UNCHANGED <<appReady, store, dbq, cur, retries, timers, windowVars,
                 tokenWindow, orphans, tokenListeners>>

\* bot.connect() rejects: the catch-callback of login logs the error
ConnectReject(b) ==
  /\ bots[b].p = "pending" /\ bots[b].link = "off"
  /\ bots' = [bots EXCEPT ![b].p = "rejected"]
  /\ Quiet("connectFailed")
  /\ UNCHANGED <<routeVars, msgVars>>
  /\ UNCHANGED <<appReady, store, dbq, cur, retries, timers, windowVars,
                 tokenWindow, orphans, tokenListeners, uncaught>>

\* the handle emits 'disconnect'
Disconnect(b) ==
  /\ Alive(b) /\ bots[b].p = "resolved"
  /\ bots' = [bots EXCEPT ![b].link = "down"]
  /\ onDisconnect
  /\ Quiet("disconnect")
  /\ UNCHANGED <<routeVars, msgVars>>
  /\ UNCHANGED <<appReady, store, dbq, cur, windowVars, uncaught>>

\* a retry timer fires: function () { this.login(); }
RetryTimer ==
  /\ timers > 0
  /\ Len(dbq) < MaxQueue
  /\ timers' = timers - 1
  /\ dbq' = login(dbq)
  /\ Quiet("retryTimer")
  /\ UNCHANGED <<routeVars, msgVars>>
  /\ UNCHANGED <<appReady, store, bots, cur, retries, windowVars, tokenWindow,
                 orphans, tokenListeners, uncaught>>

\* the user submits the token window's form: ipcRenderer.send('token', tok)
TokenSubmit(tok) ==
  /\ tokenWindow = "open" \/ orphans > 0
  /\ Len(dbq) + tokenListeners <= MaxQueue
  /\ dbq' = saveToken(dbq, tok, tokenListeners)
  /\ Quiet("token")
  /\ UNCHANGED <<routeVars, msgVars>>
  /\ UNCHANGED <<appReady, store, bots, cur, retries, timers, windowVars,
                 tokenWindow, orphans, tokenListeners, uncaught>>

\* nedb runs saveToken's findOne
DbSaveFind ==
  /\ dbq # <<>> /\ Head(dbq).op = "sfind"
  /\ dbq' = saveFindCallback(Tail(dbq), Head(dbq).tok)
  /\ Quiet("saveFind")
  /\ UNCHANGED <<routeVars, msgVars>>
  /\ UNCHANGED <<appReady, store, bots, cur, retries, timers, windowVars,
                 tokenWindow, orphans, tokenListeners, uncaught>>

\* nedb runs saveToken's insert or update and calls back
DbWrite ==
  /\ dbq # <<>> /\ Head(dbq).op \in {"insert", "update"}
  /\ store' = written(Head(dbq))
  /\ saveCallback(Tail(dbq))
  /\ Quiet("saved")
  /\ UNCHANGED <<routeVars, msgVars>>
  /\ UNCHANGED <<appReady, bots, cur, retries, timers, windowVars, orphans,
                 tokenListeners>>

\* the main window's 'closed' event
WindowClosed ==
  /\ mainWindow
  /\ mainWindow' = FALSE
  /\ liveWindows' = liveWindows - 1
  /\ uiServer' = NoServer
  /\ fetches' = [i \in 1..Len(fetches) |-> [fetches[i] EXCEPT !.sender = FALSE]]
  /\ Quiet("windowClosed")
  /\ uiMessages' = [c \in Channels |-> <<>>]
  /\ UNCHANGED <<inGuild, chans, gone, listeners, activeChannel, hist, arrived,
                 liveAuthors, activations>>
  /\ UNCHANGED <<appReady, store, dbq, bots, cur, retries, timers, tokenWindow,
                 orphans, tokenListeners, uncaught>>

\* app.on('activate'): the dock icon is clicked
AppActivate ==
  /\ appReady
  /\ IF ~mainWindow THEN createWindow ELSE UNCHANGED windowVars
  /\ Quiet("activate")
  /\ UNCHANGED <<routeVars, msgVars>>
  /\ UNCHANGED <<appReady, store, dbq, bots, cur, retries, timers, tokenWindow,
                 orphans, tokenListeners, uncaught>>

\* a live handle emits 'ready'
Ready(b) ==
  /\ Alive(b) /\ bots[b].link = "off"
  /\ bots' = [bots EXCEPT ![b].link = "ready"]
  /\ onReady
  /\ ev' = Ev("ready") /\ calls' = <<>>
  /\ UNCHANGED <<appReady, store, dbq, cur, retries, timers, tokenWindow,
                 orphans, tokenListeners, windowVars, msgVars, inGuild, chans,
                 gone>>

\* a ready handle emits 'guildCreate': the bot joined the server
GuildCreate(b) ==
  /\ Alive(b) /\ bots[b].link = "ready" /\ ~inGuild
  /\ inGuild' = TRUE
  /\ createServer
  /\ ev' = Ev("guildCreate") /\ calls' = <<>>
  /\ UNCHANGED <<lifeVars, windowVars, msgVars, chans, gone>>

\* a ready handle emits 'guildDelete': the bot left the server
GuildDelete(b) ==
  /\ Alive(b) /\ bots[b].link = "ready" /\ inGuild
  /\ inGuild' = FALSE
  /\ deleteServer
  /\ ev' = Ev("guildDelete") /\ calls' = <<>>
  /\ UNCHANGED <<lifeVars, windowVars, msgVars, chans, gone, listeners>>

\* a ready handle emits 'channelCreate' for a channel new to the server
ChannelCreate(b, c) ==
  /\ Alive(b) /\ bots[b].link = "ready" /\ inGuild
  /\ c \in DynamicChannels /\ c \notin chans /\ c \notin gone
  /\ chans' = chans \cup {c}
  /\ createChannel(c)
  /\ ev' = EvCh("channelCreate", c) /\ calls' = <<>>
  /\ UNCHANGED <<lifeVars, windowVars, msgVars, inGuild, gone>>

\* a ready handle emits 'channelDelete'
ChannelDelete(b, c) ==
  /\ Alive(b) /\ bots[b].link = "ready" /\ inGuild
  /\ c \in DynamicChannels /\ c \in chans
  /\ chans' = chans \ {c}
  /\ gone' = gone \cup {c}
  /\ deleteChannel(c)
  /\ ev' = EvCh("channelDelete", c) /\ calls' = <<>>
  /\ UNCHANGED <<lifeVars, windowVars, msgVars, inGuild>>

\* the renderer sends a command on a channel's route:
\* ipcRenderer.send(channel.id, cmd)
UICommand(c, cmd) ==
  /\ mainWindow /\ listeners[c] > 0
  /\ LET r == emitCommand(c, cmd, listeners[c])
     IN /\ calls' = r.calls
        /\ uncaught' = (uncaught \/ r.threw)
  /\ ev' = EvCmd(c, cmd) /\ sent' = <<>>
  /\ UNCHANGED <<lifeVars, windowVars, msgVars, routeVars>>

Next ==
  \/ AppReady
  \/ DbFind
  \/ \E tok \in Tokens : TokenSubmit(tok)
  \/ DbSaveFind
  \/ DbWrite
  \/ WindowClosed
  \/ AppActivate
  \/ \E b \in BotIds : ConnectResolve(b)
  \/ \E b \in BotIds : ConnectReject(b)
  \/ \E b \in BotIds : Disconnect(b)
  \/ RetryTimer

Spec == Init /\ [][Next]_vars

\* the renderer activates a channel it shows: Main.activateChannel sets the
\* active channel and asks the connection for the channel's last messages
Activate(c) ==
  /\ mainWindow /\ uiServer.shown /\ c \in uiServer.channels
  /\ Len(fetches) < MaxFetches
  /\ activations < MaxActivations
  /\ activations' = activations + 1
  /\ activeChannel' = c
  /\ IF cur = NoBot
     THEN uncaught' = TRUE /\ UNCHANGED fetches
     ELSE /\ fetches' = Append(fetches, [ch |-> c, sender |-> TRUE])
          /\ UNCHANGED uncaught
  /\ ev' = EvCh("activateChannel", c) /\ sent' = <<>> /\ calls' = <<>>
  /\ UNCHANGED <<lifeVars, windowVars, routeVars, hist, arrived, liveAuthors,
                 uiMessages>>

\* a history fetch resolves: the batch goes to the renderer that asked; the
\* send throws into the catch-callback when that renderer is gone
FetchResolve(i) ==
  /\ i \in 1..Len(fetches)
  /\ fetches' = RemoveAt(fetches, i)
  /\ sent' = IF fetches[i].sender
             THEN <<historyBatch(fetches[i].ch, getMessages(fetches[i].ch, HistoryLimit))>>
             ELSE <<>>
  /\ liveAuthors' = LET messages == getMessages(fetches[i].ch, HistoryLimit)
                    IN authorsAfterMap(liveAuthors, messages, Len(messages))
  /\ uiMessages' = IF sent' = <<>> THEN uiMessages
                   ELSE rendererBatch(uiMessages, sent'[1])
  /\ ev' = EvCh("historyFetched", fetches[i].ch) /\ calls' = <<>>
  /\ UNCHANGED <<lifeVars, windowVars, routeVars, activeChannel, hist, arrived,
                 activations, uncaught>>

\* a catch-callback that asks for the history again
FetchReject_retry(i) ==
  /\ i \in 1..Len(fetches)
  /\ fetches' = Append(RemoveAt(fetches, i), fetches[i])
  /\ ev' = EvCh("historyFailed", fetches[i].ch) /\ sent' = <<>> /\ calls' = <<>>
  /\ UNCHANGED <<lifeVars, windowVars, routeVars, activeChannel, hist, arrived,
                 liveAuthors, activations, uiMessages, uncaught>>

\* a history fetch fails: the catch-callback logs the error
FetchReject(i) ==
  /\ i \in 1..Len(fetches)
  /\ fetches' = RemoveAt(fetches, i)
  /\ ev' = EvCh("historyFailed", fetches[i].ch) /\ sent' = <<>> /\ calls' = <<>>
  /\ UNCHANGED <<lifeVars, windowVars, routeVars, activeChannel, hist, arrived,
                 liveAuthors, activations, uiMessages, uncaught>>

\* a ready handle emits 'messageCreate' for a new message of a channel
MessageCreate(b, c) ==
  /\ Alive(b) /\ bots[b].link = "ready" /\ inGuild
  /\ c \in chans \cap TextChannels
  /\ arrived < MaxLive
  /\ arrived' = arrived + 1
  /\ hist' = [hist EXCEPT ![c] = hist[c] + 1]
  /\ sent' = onMessage(Message(c, hist[c] + 1))
  /\ liveAuthors' = IF onMessage(Message(c, hist[c] + 1)) = <<>> THEN liveAuthors
                    ELSE authorAfterFormat(liveAuthors, Message(c, hist[c] + 1))
  /\ uiMessages' = IF sent' = <<>> THEN uiMessages
                   ELSE rendererLive(uiMessages, sent'[1])
  /\ ev' = EvCh("messageCreate", c) /\ calls' = <<>>
  /\ UNCHANGED <<lifeVars, windowVars, routeVars, activeChannel, fetches,
                 activations, uncaught>>

\* a session that starts with a stored credential
InitStored == Init /\ store # <<>>

\* the connection's events that reach the routes: (re)connection of a session
\* with a stored credential, the server's and channels' events, the window, and
\* the renderer's message command
RouteCmds == {Cmd("message", "hi", Absent, Absent)}
RouteNext ==
  \/ AppReady
  \/ DbFind
  \/ \E b \in BotIds : ConnectResolve(b)
  \/ \E b \in BotIds : Disconnect(b)
  \/ RetryTimer
  \/ WindowClosed
  \/ AppActivate
  \/ \E b \in BotIds : Ready(b)
  \/ \E b \in BotIds : GuildCreate(b)
  \/ \E b \in BotIds : GuildDelete(b)
  \/ \E b \in BotIds, c \in Channels : ChannelCreate(b, c)
  \/ \E b \in BotIds, c \in Channels : ChannelDelete(b, c)
  \/ \E c \in Channels, cmd \in RouteCmds : UICommand(c, cmd)

SpecRoutes == InitStored /\ [][RouteNext]_vars

\* every command payload on every route, in the sessions of a first connection
CommandNext ==
  \/ AppReady
  \/ DbFind
  \/ \E b \in BotIds : ConnectResolve(b)
  \/ \E b \in BotIds : Ready(b)
  \/ \E b \in BotIds : GuildCreate(b)
  \/ \E b \in BotIds : GuildDelete(b)
  \/ \E b \in BotIds, c \in Channels : ChannelCreate(b, c)
  \/ \E b \in BotIds, c \in Channels : ChannelDelete(b, c)
  \/ \E c \in Channels, cmd \in Cmds : UICommand(c, cmd)

SpecCommands == InitStored /\ [][CommandNext]_vars

\* activation, history and live messages, in the sessions of a first connection
MessageNext ==
  \/ AppReady
  \/ DbFind
  \/ \E b \in BotIds : ConnectResolve(b)
  \/ \E b \in BotIds : Ready(b)
  \/ WindowClosed
  \/ AppActivate
  \/ \E c \in Channels : Activate(c)
  \/ \E i \in 1..MaxFetches : FetchResolve(i)
  \/ \E i \in 1..MaxFetches : FetchReject(i)
  \/ \E b \in BotIds, c \in Channels : MessageCreate(b, c)

InitMessages == \E h \in InitialHistories : Start(h) /\ store # <<>>

SpecMessages == InitMessages /\ [][MessageNext]_vars

(* ------------------------------- claims ------------------------------- *)
\* createTokenWindow ran in this step: the credential window is requested
TokenWindowRequested ==
  tokenWindow' = "open" /\ tokenListeners' = tokenListeners + 1

\* C1: from a retry counter of 0, consecutive disconnects take the counter to
\* 1, 2 and 3, each scheduling one login retry and requesting no credential
\* window; the disconnect handled at counter 3 (the 4th of the run) resets the
\* counter to 0, requests the credential window and schedules no retry.
C1_FourthDisconnectForcesReauth ==
  [][ev'.kind = "disconnect" =>
       /\ retries < 3 =>
            /\ retries' = retries + 1
            /\ timers' = timers + 1
            /\ ~TokenWindowRequested
       /\ retries = 3 =>
            /\ retries' = 0
            /\ timers' = timers
            /\ TokenWindowRequested
       /\ retries \in 0..3]_vars

\* the 4th disconnect of a run has been handled
C1_Witness ==
  ev.kind = "disconnect" /\ retries = 0 /\ tokenWindow = "open" /\ tokenListeners > 0

\* C2: whenever a connect attempt succeeds the retry counter is 0.
C2_ResetOnConnect == ev.kind = "connected" => retries = 0

\* C3: the retry counter is an integer in 0..3 in every reachable state.
C3_RetriesInRange == retries \in 0..3

\* the counter is at its ceiling after three disconnects
C3_Witness == retries = 3 /\ ev.kind = "disconnect"

\* the last event was a renderer command on a route that has a listener
CommandHandled == ev.kind = "command" /\ listeners[ev.ch] > 0
\* n copies of a call
Repeat(call, n) == [i \in 1..n |-> call]
SendMessage(c, text) == [op |-> "createMessage", ch |-> c, text |-> text]
SendTyping(c) == [op |-> "sendTyping", ch |-> c, text |-> Absent]
StopTyping(c) == [op |-> "stopTyping", ch |-> c, text |-> Absent]

\* C4 as claimed: a live message for a channel is delivered to the renderer if
\* and only if the channel is the active channel, also when no channel has been
\* activated; a delivered message is addressed to its channel's identifier.
C4_DeliveredIffActive ==
  ev.kind = "messageCreate"
    => /\ (sent # <<>>) <=> (activeChannel = ev.ch)
       /\ sent # <<>> => sent[1].to = ev.ch

\* C4 as amended: a live message for a channel is delivered if and only if a
\* main window exists and either no channel has been activated or the channel
\* is the active channel; it is delivered once, normalized, addressed to its
\* channel's identifier.
C4_DeliveredIffWindowAndNoOtherActive ==
  ev.kind = "messageCreate"
    => /\ (sent # <<>>) <=>
            (mainWindow /\ (activeChannel = Absent \/ activeChannel = ev.ch))
       /\ sent # <<>> =>
            sent = <<[to |-> ev.ch,
                      data |-> formatMessage(Message(ev.ch, hist[ev.ch]))]>>

\* a live message of another channel than the active one was dropped
C4_Witness ==
  /\ ev.kind = "messageCreate" /\ mainWindow
  /\ activeChannel # Absent /\ activeChannel # ev.ch /\ sent = <<>>

\* C5: every channel of the server snapshot the renderer holds has exactly one
\* command listener registered for its identifier, and a 'message' command on
\* such a channel's route makes exactly one send-message call.
C5_OneRoutePerChannel ==
  /\ uiServer.shown => \A c \in uiServer.channels : listeners[c] = 1
  /\ (ev.kind = "command" /\ ev.cmd.type = "message"
        /\ uiServer.shown /\ ev.ch \in uiServer.channels)
       => calls = <<SendMessage(ev.ch, ev.cmd.message)>>

\* C6: after a channel-deleted event for a channel no command listener remains
\* registered for its identifier, and a command on its route makes no call.
C6_DeletedChannelHasNoRoute ==
  /\ \A c \in gone : listeners[c] = 0
  /\ (ev.kind = "command" /\ ev.ch \in gone) => calls = <<>>

\* C7 as claimed: a command that is absent, has no type, or has a type other
\* than message and typing makes no call on the connection.
C7_UnrecognizedMakesNoCall ==
  (CommandHandled /\ (~ev.cmd.present \/ ev.cmd.type \notin {"message", "typing"}))
    => calls = <<>>

\* C7 as amended: a command that is absent or whose type is absent or empty
\* makes no call on the connection and raises nothing.
C7_AbsentTypeMakesNoCall ==
  (CommandHandled /\ (~ev.cmd.present \/ ev.cmd.type \in {Absent, ""}))
    => calls = <<>> /\ sent = <<>>

\* a command with no type was handled by a registered route
C7_Witness ==
  CommandHandled /\ ev.cmd.present /\ ev.cmd.type = Absent /\ calls = <<>>

\* C8: a command whose type is present and is not typing, whether it is
\* message or any other value, makes one send-message call per listener of the
\* route, for the route's channel and with the command's message content.
C8_OtherTypeSendsMessage ==
  (CommandHandled /\ ev.cmd.present /\ ev.cmd.type \notin {Absent, "", "typing"})
    => calls = Repeat(SendMessage(ev.ch, ev.cmd.message), listeners[ev.ch])

\* a command of an unrecognized type was sent as a message by the one route
C8_Witness ==
  /\ CommandHandled /\ ev.cmd.type = "edit" /\ listeners[ev.ch] = 1
  /\ calls = <<SendMessage(ev.ch, "hi")>>

\* C9: a typing command for a channel the connection knows forwards a
\* start-typing indicator for that channel on action start and a stop-typing
\* indicator for it on any other action, and never sends a message.
C9_TypingStartAndStop ==
  (CommandHandled /\ ev.cmd.type = "typing"
     /\ ev.cmd.channel # Absent /\ Cached(ev.cmd.channel))
    => /\ ev.cmd.action = "start"
            => calls = Repeat(SendTyping(ev.cmd.channel), listeners[ev.ch])
       /\ ev.cmd.action # "start"
            => calls = Repeat(StopTyping(ev.cmd.channel), listeners[ev.ch])
       /\ \A i \in 1..Len(calls) : calls[i].op # "createMessage"

\* the 50 most recent messages of a channel, normalized, oldest first
RecentBatch(c) ==
  [k \in 1..HistoryLimit |-> formatMessage(Message(c, hist[c] - HistoryLimit + k))]

\* C10: when the history fetch of an activation of a channel whose history
\* holds more than 50 messages resolves, and the renderer that asked is still
\* there, exactly one batch is delivered, addressed to the channel's
\* identifier, holding the 50 most recent messages, normalized, oldest first.
C10_HistoryBatchIsLast50OldestFirst ==
  [][\A i \in 1..Len(fetches) :
       (FetchResolve(i) /\ fetches[i].sender /\ hist[fetches[i].ch] > HistoryLimit)
         => sent' = <<[to |-> fetches[i].ch, data |-> RecentBatch(fetches[i].ch)]>>]_vars

\* a batch of 50 was delivered for a channel that holds more than 50 messages
C10_Witness ==
  /\ ev.kind = "historyFetched" /\ hist[ev.ch] > HistoryLimit
  /\ sent # <<>> /\ sent[1].to = ev.ch /\ Len(sent[1].data) = HistoryLimit
  /\ sent[1].data[1].id = hist[ev.ch] - HistoryLimit + 1

\* the messages a history fetch of a channel returns (at most 50, the most
\* recent ones), normalized, oldest first
HistoryOf(c) ==
  LET n == IF hist[c] < HistoryLimit THEN hist[c] ELSE HistoryLimit
  IN [k \in 1..n |-> formatMessage(Message(c, hist[c] - n + k))]

\* C11: when the history fetch of a channel resolves after another channel has
\* been activated, and the renderer that asked is still there, the batch is
\* still delivered, once, addressed to the identifier of the channel it was
\* fetched for and never to the active channel's, and the active channel stays
\* the channel activated last.
C11_StaleFetchStillDelivers ==
  [][\A i \in 1..Len(fetches) :
       (FetchResolve(i) /\ fetches[i].sender /\ activeChannel # fetches[i].ch)
         => /\ sent' = <<[to |-> fetches[i].ch, data |-> HistoryOf(fetches[i].ch)]>>
            /\ sent'[1].to # activeChannel'
            /\ activeChannel' = activeChannel]_vars

\* a batch was delivered for a channel that is no longer the active one
C11_Witness ==
  /\ ev.kind = "historyFetched" /\ activeChannel \notin {Absent, ev.ch}
  /\ sent # <<>> /\ sent[1].to = ev.ch /\ Len(sent[1].data) > 0

\* C12: when a history fetch fails nothing is delivered to the renderer, no call
\* is made and no new fetch is started, nothing is raised, and the active
\* channel stays as the activation set it; a live message of the active channel
\* that arrives while the main window exists is delivered.
C12_FailedFetchIsDropped ==
  [][/\ ev'.kind = "historyFailed"
          => /\ sent' = <<>> /\ calls' = <<>>
             /\ Len(fetches') = Len(fetches) - 1
             /\ activeChannel' = activeChannel
             /\ uncaught' = uncaught
     /\ (ev'.kind = "messageCreate" /\ mainWindow /\ activeChannel = ev'.ch)
          => sent' # <<>> /\ sent'[1].to = activeChannel]_vars

\* the fetch of the active channel failed and nothing is in flight
C12_Witness ==
  /\ ev.kind = "historyFailed" /\ activeChannel = ev.ch /\ mainWindow
  /\ sent = <<>> /\ fetches = <<>>

\* C13: a failed connect attempt raises nothing, creates no window, schedules
\* no retry (no timer, no login) and leaves the retry counter alone; a token
\* submitted afterwards is saved by every 'token' listener, and each save is
\* followed by a new login.
C13_FailedConnectIsCaught ==
  [][/\ ev'.kind = "connectFailed"
          => /\ uncaught' = uncaught
             /\ UNCHANGED <<windowVars, tokenWindow, orphans>>
             /\ timers' = timers /\ dbq' = dbq
             /\ retries' = retries
     /\ ev'.kind = "token"
          => /\ Len(dbq') = Len(dbq) + tokenListeners /\ tokenListeners > 0
             /\ dbq'[Len(dbq')] = [op |-> "sfind", tok |-> dbq'[Len(dbq')].tok]
     /\ ev'.kind = "saved"
          => dbq' = Append(Tail(dbq), [op |-> "find", tok |-> ""])]_vars

\* a token is submitted after a connect attempt has failed
C13_Witness ==
  /\ ev.kind = "token" /\ \E b \in BotIds : bots[b].p = "rejected"
  /\ dbq # <<>> /\ dbq[Len(dbq)].op = "sfind"

\* C14: a successful connect creates the main window only when none exists and
\* leaves an existing one alone; at most one main window is live in every
\* state, and it is the one this.mainWindow references.
C14_AtMostOneMainWindow ==
  [][/\ ev'.kind = "connected"
          => IF mainWindow THEN UNCHANGED windowVars
             ELSE mainWindow' /\ liveWindows' = liveWindows + 1
     /\ liveWindows' <= 1
     /\ mainWindow' <=> liveWindows' = 1]_vars

\* a reconnection succeeded while the main window of the first login was there
C14_Witness ==
  /\ ev.kind = "connected" /\ retries > 0 /\ mainWindow /\ liveWindows = 1
  /\ \E b \in BotIds : bots[b].link = "down"

\* C15: with an empty store the login callback requests the token window and
\* creates no connection handle; a submitted token is looked up and then
\* inserted when the store is empty and written over the record otherwise;
\* after the write the store is the single record holding the token and a
\* login is issued, which connects with the stored token; a connect that
\* succeeds leaves its handle connected.
C15_SubmitPersistsSingleRecordThenLogin ==
  [][/\ (ev'.kind = "loginCallback" /\ store = <<>>)
          => TokenWindowRequested /\ bots' = bots
     /\ ev'.kind = "saveFind"
          => dbq'[Len(dbq')] =
               [op |-> IF store = <<>> THEN "insert" ELSE "update",
                tok |-> Head(dbq).tok]
     /\ ev'.kind = "saved"
          => /\ store' = <<Head(dbq).tok>>
             /\ dbq' = Append(Tail(dbq), [op |-> "find", tok |-> ""])
     /\ (ev'.kind = "loginCallback" /\ store # <<>> /\ store[1] # "")
          => /\ cur' \in BotIds
             /\ bots'[cur'] = [p |-> "pending", link |-> "off", tok |-> store[1]]
     /\ ev'.kind = "connected"
          => \E b \in BotIds : bots[b].p = "pending" /\ bots'[b].p = "resolved"]_vars

\* C16: a live message that arrives while no main window exists, before the
\* first window is created or after the window was closed, is dropped: nothing
\* is sent to a renderer, no call is made and nothing is raised.
C16_NoWindowDropsMessage ==
  [][(ev'.kind = "messageCreate" /\ ~mainWindow)
       => sent' = <<>> /\ calls' = <<>> /\ uncaught' = uncaught]_vars

\* a live message of the active channel arrived after the window was closed
C16_Witness ==
  /\ ev.kind = "messageCreate" /\ ~mainWindow /\ liveWindows = 0
  /\ activeChannel = ev.ch /\ sent = <<>>

\* the events of the connection that carry servers and channels
ServerEvents == {"ready", "guildCreate", "guildDelete", "channelCreate", "channelDelete"}

\* C17: no handler of a ready, server-created, server-deleted, channel-created
\* or channel-deleted event throws out of its callback, in any state the event
\* can arrive in, with or without a main window.
C17_NoServerEventThrows ==
  [][ev'.kind \in ServerEvents => uncaught' = uncaught]_vars

\* C18: the handler of a channel-created event, run while the main window
\* exists, sends one 'server-update' to the renderer and leaves a command
\* listener registered for the channel's identifier.
C18_CreatedChannelGetsRoute ==
  (ev.kind = "channelCreate" /\ mainWindow)
    => /\ sent = <<[to |-> "server-update", data |-> {}]>>
       /\ listeners[ev.ch] >= 1

\* C19: the snapshot a server creation broadcasts holds exactly the text
\* channels of the server that the bot may read, and at that moment command
\* listeners are registered for exactly those channels' identifiers and for no
\* other channel.
C19_SnapshotAndRoutesAreReadableText ==
  (ev.kind \in {"ready", "guildCreate"} /\ sent # <<>>)
    => /\ sent[1].to = "server-create"
       /\ sent[1].data = {c \in chans : Kind(c) = 0 /\ Readable(c)}
       /\ {c \in Channels : listeners[c] > 0} = sent[1].data

\* the connection handles that have Main's handlers bound and can emit events
BoundHandles == {b \in BotIds : Alive(b)}

\* C20: at most one connection handle with Main's handlers bound is alive, so
\* a remote event reaches Main's handlers through one handle only.
C20_OneBoundHandle == Cardinality(BoundHandles) <= 1

\* C21: normalizing a message writes nothing to the raw message or to the
\* objects it references: the live author objects are the same after a live
\* message was normalized and after a history batch was normalized.
C21_FormatMessageLeavesInputAlone ==
  [][ev'.kind \in {"messageCreate", "historyFetched"}
       => liveAuthors' = liveAuthors]_vars

\* C22: in a delivered live message every role of the author has the colour
\* '#fefefe' when the role's colour is black (0) and the role's own colour as
\* a hexadecimal string otherwise.
C22_BlackBecomesNearWhite ==
  (ev.kind = "messageCreate" /\ sent # <<>>)
    => LET roles == sent[1].data.author.roles
           ids == MemberRoles(sent[1].data.author.id)
       IN /\ Len(roles) = Len(ids)
          /\ \A k \in 1..Len(roles) :
               roles[k].color = IF Role(ids[k]).color = 0 THEN HexString(16711422)
                                ELSE HexString(Role(ids[k]).color)

\* a login is on its way: a retry timer is pending or login's lookup is queued
LoginPending == timers > 0 \/ \E i \in 1..Len(dbq) : dbq[i].op = "find"

\* C23: a disconnect handled below the ceiling schedules one retry timer, the
\* timer's firing issues login's lookup of the store, and the lookup's callback
\* connects a new handle with the stored credential (so that, the timer and
\* the store being fair, a login attempt follows the disconnect); the
\* disconnect handled at the ceiling schedules no retry and leaves no login on
\* its way, so that none follows before a token is submitted.
C23_RetryFollowsUnlessForced ==
  [][/\ (ev'.kind = "disconnect" /\ retries < RetryCeiling)
          => timers' = timers + 1
     /\ ev'.kind = "retryTimer"
          => timers' = timers - 1 /\ dbq' = Append(dbq, [op |-> "find", tok |-> ""])
     /\ (ev'.kind = "loginCallback" /\ store # <<>> /\ store[1] # "")
          => /\ cur' \in BotIds
             /\ bots'[cur'] = [p |-> "pending", link |-> "off", tok |-> store[1]]
     /\ (ev'.kind = "disconnect" /\ retries >= RetryCeiling)
          => /\ timers' = timers /\ dbq' = dbq
             /\ ~LoginPending']_vars

\* C24: at most one 'token' listener is registered at any time, however often
\* the token window has been requested, and one token submission issues one
\* lookup of the store, hence one write and one login.
C24_OneTokenListener ==
  [][/\ tokenListeners' <= 1
     /\ ev'.kind = "token"
          => dbq' = Append(dbq, [op |-> "sfind", tok |-> dbq'[Len(dbq')].tok])]_vars

\* C25: every list of the renderer holds each message at most once and in
\* chronological order, whatever the interleaving of an activation, its
\* history fetch and the live messages of the channel: a live message that
\* arrived between the activation and the resolution of the fetch is not
\* listed again with the history batch.
C25_EachMessageListedOnceInOrder ==
  \A c \in Channels :
    \A j, k \in 1..Len(uiMessages[c]) : j < k => uiMessages[c][j] < uiMessages[c][k]
====
